---- MODULE Spec2Model ----
(***************************************************************************)
(* dota2diff: the change-record model (src/src/model.rs) and the step     *)
(* that writes the merged changes as a document (src/src/main.rs).         *)
(*                                                                         *)
(* A Rust String is modelled as the sequence of its bytes (ASCII codes),   *)
(* so that comparison, concatenation, splitting and searching are what     *)
(* the code computes.  An i32 keeps its width: additions that leave the    *)
(* range panic when the build checks overflow (the debug profile) and wrap *)
(* otherwise (the release profile).                                        *)
(***************************************************************************)
EXTENDS Integers, Sequences, FiniteSets, TLC

VARIABLES
    overflow_checks,   \* build profile: TRUE = overflow panics, FALSE = wraps
    pc,                \* position of the running operation
    given,             \* patch_diff: the argument as the caller passed it
    combined_patches,  \* patch_diff: the vector, sorted in place
    combined_idx,      \* patch_diff: loop index
    result,            \* patch_diff: result vector
    result_idx,        \* patch_diff: index of the accumulator in result
    old,               \* diff: first argument
    new,               \* diff: second argument
    data_result,       \* outcome of ChangeData::diff(old.data, new.data)
    diff_result,       \* outcome of PatchChange::diff(old, new)
    change_line,       \* parse_text: the raw line
    tree_location,     \* parse_text: the context path
    version,           \* parse_text: the version
    parsed,            \* outcome of parse_text; its value is write_text's self
    text,              \* outcome of write_text
    loop_i,            \* absolute_change_direction: the loop index i
    is_inc,            \* absolute_change_direction: an index went up
    is_dec,            \* absolute_change_direction: an index went down
    direction,         \* outcome of absolute_change_direction(old, new)
    save_input,        \* save_diff_as_html: its argument (diff_result there)
    save_idx,          \* save_diff_as_html: changes consumed by the for loop
    current_h2,        \* save_diff_as_html: heading of the open section
    current_h3,        \* save_diff_as_html: heading of the open subsection
    current_b,         \* save_diff_as_html: label of the open group
    document           \* save_diff_as_html: the String it builds (result there)

mergeVars == <<given, combined_patches, combined_idx, result, result_idx>>
diffVars  == <<old, new, data_result, diff_result>>
textVars  == <<change_line, tree_location, version, parsed, text>>
dirVars   == <<loop_i, is_inc, is_dec, direction>>
htmlVars  == <<save_input, save_idx, current_h2, current_h3, current_b, document>>

vars == <<overflow_checks, pc, mergeVars, diffVars, textVars, dirVars, htmlVars>>

---------------------------------------------------------------------------
(* Strings: sequences of byte values. *)

S_HZ     == <<72, 32, 62, 32, 90>>                   \* "H > Z"
S_HZB    == <<72, 32, 62, 32, 90, 32, 62, 32, 66>>   \* "H > Z > B"
S_732    == <<55, 46, 51, 50>>                       \* "7.32"
S_732a   == <<55, 46, 51, 50, 97>>                   \* "7.32a"
S_732b   == <<55, 46, 51, 50, 98>>                   \* "7.32b"
S_4      == <<52>>                                   \* "4"
S_5      == <<53>>                                   \* "5"
S_6      == <<54>>                                   \* "6"
S_n      == <<110>>                                  \* "n"

SetMin(S) == CHOOSE x \in S : \A y \in S : x <= y

\* Ord for String (and &str): bytewise lexicographic; -1, 0 or 1.
StrCmp(a, b) ==
    LET n == IF Len(a) < Len(b) THEN Len(a) ELSE Len(b)
        d == {i \in 1..n : a[i] # b[i]}
    IN  IF d = {}
        THEN IF Len(a) < Len(b) THEN -1 ELSE IF Len(a) > Len(b) THEN 1 ELSE 0
        ELSE IF a[SetMin(d)] < b[SetMin(d)] THEN -1 ELSE 1

IntCmp(a, b) == IF a < b THEN -1 ELSE IF a > b THEN 1 ELSE 0

---------------------------------------------------------------------------
(* i32 *)

I32_MAX == 2147483647
I32_MIN == -I32_MAX - 1

\* a + b on i32: whether it leaves the range, and the wrapped (two's
\* complement) value.  Written so that no intermediate leaves the range.
I32Add(a, b) ==
    IF b > 0 /\ a > I32_MAX - b
    THEN [overflow |-> TRUE,  value |-> (a - I32_MAX - 1) + (b - I32_MAX - 1)]
    ELSE IF b < 0 /\ a < I32_MIN - b
    THEN [overflow |-> TRUE,  value |-> (a + I32_MAX + 1) + (b + I32_MAX + 1)]
    ELSE [overflow |-> FALSE, value |-> a + b]

---------------------------------------------------------------------------
(* enum ChangeData: every value carries all fields, the unused ones empty. *)

AbsoluteChange(o, n) ==
    [tag |-> "AbsoluteChange", old |-> o, new |-> n, value |-> 0, text |-> <<>>]
RelativeChange(v) ==
    [tag |-> "RelativeChange", old |-> <<>>, new |-> <<>>, value |-> v, text |-> <<>>]
OtherChange(t) ==
    [tag |-> "OtherChange", old |-> <<>>, new |-> <<>>, value |-> 0, text |-> t]

\* Declaration order of the variants, which the derived Ord compares first.
Discriminant(d) ==
    CASE d.tag = "AbsoluteChange" -> 0
      [] d.tag = "RelativeChange" -> 1
      [] d.tag = "OtherChange"    -> 2

variant_eq(a, b) == Discriminant(a) = Discriminant(b)

\* #[derive(Ord)] on ChangeData: the variant, then the fields in order.
ChangeDataCmp(a, b) ==
    IF Discriminant(a) # Discriminant(b)
    THEN IntCmp(Discriminant(a), Discriminant(b))
    ELSE CASE a.tag = "AbsoluteChange" ->
                 IF StrCmp(a.old, b.old) # 0 THEN StrCmp(a.old, b.old)
                 ELSE StrCmp(a.new, b.new)
           [] a.tag = "RelativeChange" -> IntCmp(a.value, b.value)
           [] a.tag = "OtherChange"    -> StrCmp(a.text, b.text)

\* struct PatchChange
PatchChange(p, v, d) == [property |-> p, version |-> v, data |-> d]

\* Mutant: an order on the property alone.
PatchChangeCmp_property_only(a, b) == StrCmp(a.property, b.property)

\* #[derive(Ord)] on PatchChange: property, then version, then data.
PatchChangeCmp(a, b) ==
    IF StrCmp(a.property, b.property) # 0 THEN StrCmp(a.property, b.property)
    ELSE IF StrCmp(a.version, b.version) # 0 THEN StrCmp(a.version, b.version)
    ELSE ChangeDataCmp(a.data, b.data)

---------------------------------------------------------------------------
(* Outcomes of a call: Ok(value), Err(message), or a panic. *)

NoData   == OtherChange(<<>>)
NoChange == PatchChange(<<>>, <<>>, NoData)
NotRun   == [kind |-> "NotRun", value |-> NoChange, err |-> ""]

Ok(v)    == [kind |-> "Ok",    value |-> v, err |-> ""]
Err(k, m) == [kind |-> "Err",  value |-> k, err |-> m]
Panic(k, m) == [kind |-> "Panic", value |-> k, err |-> m]

ERR_OTHER   == "ChangeData::OtherChange does not track diff"
ERR_VARIANT == "ChangeData variants are not equal"
ERR_PROPERTY == "PatchChange.property values do not match"
PANIC_ADD   == "attempt to add with overflow"

\* Mutant: an AbsoluteChange merge that keeps the later record's old value.
ChangeData_diff_keeps_later_old(o, n, checks) ==
    IF o.tag = "AbsoluteChange" /\ n.tag = "AbsoluteChange"
    THEN Ok(AbsoluteChange(n.old, n.new))
    ELSE IF o.tag = "RelativeChange" /\ n.tag = "RelativeChange"
    THEN LET s == I32Add(o.value, n.value)
         IN  IF s.overflow /\ checks THEN Panic(NoData, PANIC_ADD)
             ELSE Ok(RelativeChange(s.value))
    ELSE IF o.tag = n.tag THEN Err(NoData, ERR_OTHER)
    ELSE Err(NoData, ERR_VARIANT)

\* Mutant: a merge that swallows a record of another variant.
ChangeData_diff_absorbs_mismatch(o, n, checks) ==
    IF o.tag = "AbsoluteChange" /\ n.tag = "AbsoluteChange"
    THEN Ok(AbsoluteChange(o.old, n.new))
    ELSE IF o.tag = "RelativeChange" /\ n.tag = "RelativeChange"
    THEN LET s == I32Add(o.value, n.value)
         IN  IF s.overflow /\ checks THEN Panic(NoData, PANIC_ADD)
             ELSE Ok(RelativeChange(s.value))
    ELSE IF o.tag = n.tag THEN Err(NoData, ERR_OTHER)
    ELSE Ok(o)

\* Mutant: a RelativeChange merge that keeps the later delta instead of the sum.
ChangeData_diff_overwrites_delta(o, n, checks) ==
    IF o.tag = "AbsoluteChange" /\ n.tag = "AbsoluteChange"
    THEN Ok(AbsoluteChange(o.old, n.new))
    ELSE IF o.tag = "RelativeChange" /\ n.tag = "RelativeChange"
    THEN Ok(RelativeChange(n.value))
    ELSE IF o.tag = n.tag THEN Err(NoData, ERR_OTHER)
    ELSE Err(NoData, ERR_VARIANT)

\* ChangeData::diff
ChangeData_diff(o, n, checks) ==
    IF variant_eq(o, n)
    THEN IF o.tag = "AbsoluteChange" /\ n.tag = "AbsoluteChange"
         THEN Ok(AbsoluteChange(o.old, n.new))
         ELSE IF o.tag = "RelativeChange" /\ n.tag = "RelativeChange"
         THEN LET s == I32Add(o.value, n.value)
              IN  IF s.overflow /\ checks
                  THEN Panic(NoData, PANIC_ADD)
                  ELSE Ok(RelativeChange(s.value))
         ELSE Err(NoData, ERR_OTHER)
    ELSE Err(NoData, ERR_VARIANT)

\* Mutant: a diff that does not compare the properties.
PatchChange_diff_any_property(o, n, checks) ==
    LET d == ChangeData_diff(o.data, n.data, checks)
    IN  CASE d.kind = "Ok"    -> Ok(PatchChange(o.property, n.version, d.value))
          [] d.kind = "Err"   -> Err(NoChange, d.err)
          [] d.kind = "Panic" -> Panic(NoChange, d.err)

\* Mutant: a diff that stamps the result with the earlier record's version.
PatchChange_diff_old_version(o, n, checks) ==
    IF o.property = n.property
    THEN LET d == ChangeData_diff(o.data, n.data, checks)
         IN  CASE d.kind = "Ok"    -> Ok(PatchChange(o.property, o.version, d.value))
               [] d.kind = "Err"   -> Err(NoChange, d.err)
               [] d.kind = "Panic" -> Panic(NoChange, d.err)
    ELSE Err(NoChange, ERR_PROPERTY)

\* Mutant: a diff that merges the changes of one version, whatever their
\* properties.
PatchChange_diff_same_version(o, n, checks) ==
    IF o.version = n.version
    THEN LET d == ChangeData_diff(o.data, n.data, checks)
         IN  CASE d.kind = "Ok"    -> Ok(PatchChange(o.property, n.version, d.value))
               [] d.kind = "Err"   -> Err(NoChange, d.err)
               [] d.kind = "Panic" -> Panic(NoChange, d.err)
    ELSE Err(NoChange, ERR_PROPERTY)

\* PatchChange::diff
PatchChange_diff(o, n, checks) ==
    IF o.property = n.property
    THEN LET d == ChangeData_diff(o.data, n.data, checks)
         IN  CASE d.kind = "Ok"    -> Ok(PatchChange(o.property, n.version, d.value))
               [] d.kind = "Err"   -> Err(NoChange, d.err)
               [] d.kind = "Panic" -> Panic(NoChange, d.err)
    ELSE Err(NoChange, ERR_PROPERTY)

---------------------------------------------------------------------------
(* Vec::sort: a stable sort by the derived Ord. *)

RECURSIVE InsertSorted(_, _)
\* x placed after the last element that is not greater than it.
InsertSorted(s, x) ==
    IF s = <<>> THEN <<x>>
    ELSE IF PatchChangeCmp(s[Len(s)], x) <= 0
         THEN Append(s, x)
         ELSE Append(InsertSorted(SubSeq(s, 1, Len(s) - 1), x), s[Len(s)])

RECURSIVE SortVec(_)
SortVec(s) ==
    IF s = <<>> THEN <<>>
    ELSE InsertSorted(SortVec(SubSeq(s, 1, Len(s) - 1)), s[Len(s)])

---------------------------------------------------------------------------
(* String operations used by the renderer and the classifier. *)

S_SPACE     == <<32>>                                             \* " "
S_SEP       == <<32,62,32>>                                       \* " > "
S_FROM      == <<32,102,114,111,109,32>>                          \* " from "
S_TO        == <<32,116,111,32>>                                  \* " to "
S_BY        == <<32,98,121,32>>                                   \* " by "
S_REPLACED  == <<32,114,101,112,108,97,99,101,100,32,119,105,116,104,32>>  \* " replaced with "
S_UNCHANGED == <<32,117,110,99,104,97,110,103,101,100>>           \* " unchanged"
S_increased == <<105,110,99,114,101,97,115,101,100>>              \* "increased"
S_decreased == <<100,101,99,114,101,97,115,101,100>>              \* "decreased"
S_rescaled  == <<114,101,115,99,97,108,101,100>>                  \* "rescaled"
S_changed   == <<99,104,97,110,103,101,100>>                      \* "changed"
S_Talent    == <<84,97,108,101,110,116>>                          \* "Talent"

\* Byte classes.
IsDigit(c)   == 48 <= c /\ c <= 57             \* [0-9]
IsNumChar(c) == IsDigit(c) \/ c = 46           \* [0-9\.]
IsSpace(c)   == c = 32 \/ (9 <= c /\ c <= 13)  \* \s on ASCII

\* s occurs in t at position i (1-based).
OccursAt(s, t, i) ==
    /\ 1 <= i
    /\ i + Len(s) - 1 <= Len(t)
    /\ \A k \in 1..Len(s) : t[i + k - 1] = s[k]

\* str::contains
Contains(t, s) == \E i \in 1..(Len(t) + 1) : OccursAt(s, t, i)

\* str::split on one byte: the pieces between the separators, at least one.
RECURSIVE SplitOn(_, _)
SplitOn(t, c) ==
    LET hits == {i \in DOMAIN t : t[i] = c}
    IN  IF hits = {} THEN <<t>>
        ELSE <<SubSeq(t, 1, SetMin(hits) - 1)>>
             \o SplitOn(SubSeq(t, SetMin(hits) + 1, Len(t)), c)

\* Display for i32: the decimal digits, a leading '-' for a negative value.
RECURSIVE NatDigits(_)
NatDigits(n) ==
    IF n < 10 THEN <<48 + n>> ELSE Append(NatDigits(n \div 10), 48 + (n % 10))

I32ToString(v) ==
    IF v >= 0 THEN NatDigits(v)
    ELSE LET m == -(v + 1)       \* |v| - 1, which is in range also for i32::MIN
             q == IF m % 10 = 9 THEN (m \div 10) + 1 ELSE m \div 10   \* |v| / 10
             r == ((m % 10) + 1) % 10                                 \* |v| % 10
         IN  <<45>> \o (IF q = 0 THEN <<>> ELSE NatDigits(q)) \o <<48 + r>>

---------------------------------------------------------------------------
(* absolute_change_direction *)

\* Regex [0-9\.]+ : the leftmost match, taken as long as it goes; <<>> when
\* the text holds no such byte (captures() is None).
FirstNumToken(t) ==
    LET starts == {i \in DOMAIN t : IsNumChar(t[i])}
    IN  IF starts = {} THEN <<>>
        ELSE LET b == SetMin(starts)
                 stops == {j \in b..Len(t) : j = Len(t) \/ ~IsNumChar(t[j + 1])}
             IN  SubSeq(t, b, SetMin(stops))

\* str::parse::<f32> on a token of digits and dots: Ok for digits with at most
\* one dot and at least one digit ("5", "5.", ".5", "4.5"), Err otherwise.
ParsesAsF32(tok) ==
    /\ Cardinality({i \in DOMAIN tok : tok[i] = 46}) <= 1
    /\ \E i \in DOMAIN tok : IsDigit(tok[i])

RECURSIVE StripLeadingZeros(_)
StripLeadingZeros(d) ==
    IF d # <<>> /\ d[1] = 48 THEN StripLeadingZeros(Tail(d)) ELSE d

RECURSIVE StripTrailingZeros(_)
StripTrailingZeros(d) ==
    IF d # <<>> /\ d[Len(d)] = 48
    THEN StripTrailingZeros(SubSeq(d, 1, Len(d) - 1)) ELSE d

IntDigits(tok)  == StripLeadingZeros(SplitOn(tok, 46)[1])
FracDigits(tok) ==
    IF Len(SplitOn(tok, 46)) > 1 THEN StripTrailingZeros(SplitOn(tok, 46)[2])
    ELSE <<>>

\* Order of the parsed values of two tokens: -1, 0 or 1.  The decimal values
\* are compared exactly, which is the order of the f32 values for tokens of
\* at most six significant digits (f32 tells those apart).
F32Cmp(a, b) ==
    IF Len(IntDigits(a)) # Len(IntDigits(b))
    THEN IntCmp(Len(IntDigits(a)), Len(IntDigits(b)))
    ELSE IF StrCmp(IntDigits(a), IntDigits(b)) # 0
    THEN StrCmp(IntDigits(a), IntDigits(b))
    ELSE StrCmp(FracDigits(a), FracDigits(b))

\* Outcome of a call that returns a String.
TextOk(t)    == [kind |-> "Ok", text |-> t, err |-> ""]
TextPanic(m) == [kind |-> "Panic", text |-> <<>>, err |-> m]
TextNotRun   == [kind |-> "NotRun", text |-> <<>>, err |-> ""]

PANIC_NONE == "called Option::unwrap() on a None value"
PANIC_ERR  == "called Result::unwrap() on an Err value"

\* Mutant: a missing index reads the list from its start again.
SegmentAt_wraps(values, i) == values[(i % Len(values)) + 1]

\* The segment the loop reads at index i (0-based): segment i, or the last.
SegmentAt(values, i) ==
    IF i < Len(values) THEN values[i + 1] ELSE values[Len(values)]

absolute_change_direction(o, n) ==
    LET old_values == SplitOn(o, 47)
        new_values == SplitOn(n, 47)
        longest_len == IF Len(new_values) > Len(old_values)
                       THEN Len(new_values) ELSE Len(old_values)
        idx == 0..(longest_len - 1)
        old_tok(i) == FirstNumToken(SegmentAt(old_values, i))
        new_tok(i) == FirstNumToken(SegmentAt(new_values, i))
        first_bad == SetMin({i \in idx :
                        \/ old_tok(i) = <<>> \/ ~ParsesAsF32(old_tok(i))
                        \/ new_tok(i) = <<>> \/ ~ParsesAsF32(new_tok(i))})
        bad == \E i \in idx :
                        \/ old_tok(i) = <<>> \/ ~ParsesAsF32(old_tok(i))
                        \/ new_tok(i) = <<>> \/ ~ParsesAsF32(new_tok(i))
        some_dec == \E i \in idx : F32Cmp(new_tok(i), old_tok(i)) < 0
        some_inc == \E i \in idx : F32Cmp(new_tok(i), old_tok(i)) > 0
    IN  IF bad
        THEN \* the first unwrap that fails, old before new at each index
             IF old_tok(first_bad) = <<>> THEN TextPanic(PANIC_NONE)
             ELSE IF ~ParsesAsF32(old_tok(first_bad)) THEN TextPanic(PANIC_ERR)
             ELSE IF new_tok(first_bad) = <<>> THEN TextPanic(PANIC_NONE)
             ELSE TextPanic(PANIC_ERR)
        ELSE IF some_inc /\ some_dec THEN TextOk(S_rescaled)
        ELSE IF some_inc THEN TextOk(S_increased)
        ELSE IF some_dec THEN TextOk(S_decreased)
        ELSE TextOk(S_changed)

---------------------------------------------------------------------------
(* PatchChange::write_text *)

write_text(self) ==
    LET property == self.property
        data == self.data
    IN  CASE data.tag = "AbsoluteChange" ->
               IF Contains(property, S_Talent)
               THEN TextOk(property \o S_SPACE \o data.old \o S_REPLACED \o data.new)
               ELSE LET dir == absolute_change_direction(data.old, data.new)
                    IN  IF dir.kind = "Panic" THEN dir
                        ELSE TextOk(property \o S_SPACE \o dir.text
                                    \o S_FROM \o data.old \o S_TO \o data.new)
          [] data.tag = "RelativeChange" ->
               IF data.value < 0
               THEN TextOk(property \o S_SPACE \o S_decreased \o S_BY
                           \o I32ToString(data.value))
               ELSE IF data.value = 0
               THEN TextOk(property \o S_UNCHANGED)
               ELSE TextOk(property \o S_SPACE \o S_increased \o S_BY
                           \o I32ToString(data.value))
          [] data.tag = "OtherChange" ->
               TextOk(property \o S_SEP \o data.text)

---------------------------------------------------------------------------
(* The classifier's patterns. *)

\* A line holds no line break, so a dot matches every byte of it and an
\* unanchored search matches from the start of the line; a greedy dot-star
\* group ends at the last place from which the rest of the pattern matches.

S_OW_HAS_A == <<111,119,32,104,97,115,32,97,32>>                  \* "ow has a "

SetMax(S) == CHOOSE x \in S : \A y \in S : y <= x

\* End of the longest run of non-whitespace bytes that starts at j (j - 1
\* when the run is empty): what \S* takes.
NonSpaceRunEnd(t, j) ==
    SetMin({e \in (j - 1)..Len(t) : e = Len(t) \/ IsSpace(t[e + 1])})

\* End of the longest run of bytes other than ',' that starts at j: [^,]*
CommaFreeRunEnd(t, j) ==
    SetMin({e \in (j - 1)..Len(t) : e = Len(t) \/ t[e + 1] = 44})

NoMatch == [matched |-> FALSE, g1 |-> <<>>, g2 |-> <<>>, g3 |-> <<>>]
Match(a, b, c) == [matched |-> TRUE, g1 |-> a, g2 |-> b, g3 |-> c]

Verbs == {S_increased, S_decreased}

\* ABS_NUM_STR = (.*) (?:increased|decreased) from (\S*) to (\S*)
\* i is the place of the space that follows group 1.
AbsNumAt(t, i) ==
    /\ \E verb \in Verbs : OccursAt(S_SPACE \o verb \o S_FROM, t, i)
    /\ OccursAt(S_TO, t, NonSpaceRunEnd(t, i + 16) + 1)

abs_num_change(t) ==
    LET at == {i \in DOMAIN t : AbsNumAt(t, i)}
    IN  IF at = {} THEN NoMatch
        ELSE LET i  == SetMax(at)
                 e2 == NonSpaceRunEnd(t, i + 16)
             IN  Match(SubSeq(t, 1, i - 1),
                       SubSeq(t, i + 16, e2),
                       SubSeq(t, e2 + 5, NonSpaceRunEnd(t, e2 + 5)))

\* REL_NUM_STR = (.*) (increased|decreased) by (\S*$)
RelNumAt(t, i) ==
    /\ \E verb \in Verbs : OccursAt(S_SPACE \o verb \o S_BY, t, i)
    /\ \A k \in (i + 14)..Len(t) : ~IsSpace(t[k])

rel_num_change(t) ==
    LET at == {i \in DOMAIN t : RelNumAt(t, i)}
    IN  IF at = {} THEN NoMatch
        ELSE LET i == SetMax(at)
             IN  Match(SubSeq(t, 1, i - 1),
                       SubSeq(t, i + 1, i + 9),
                       SubSeq(t, i + 14, Len(t)))

\* ABS_TXT_STR = (.*Talent) (.*) replaced with (.*)
\* i is the place of "Talent", k the place of " replaced with ".
AbsTxtAt(t, i, k) ==
    /\ OccursAt(S_Talent \o S_SPACE, t, i)
    /\ k >= i + 7
    /\ OccursAt(S_REPLACED, t, k)

abs_txt_change(t) ==
    LET at == {i \in DOMAIN t : \E k \in DOMAIN t : AbsTxtAt(t, i, k)}
    IN  IF at = {} THEN NoMatch
        ELSE LET i == SetMax(at)
                 k == SetMax({j \in DOMAIN t : AbsTxtAt(t, i, j)})
             IN  Match(SubSeq(t, 1, i + 5),
                       SubSeq(t, i + 7, k - 1),
                       SubSeq(t, k + 15, Len(t)))

\* NEW_NUM_STR = .*ow has a (\S*) ([^,]*)
NewNumAt(t, i) ==
    /\ OccursAt(S_OW_HAS_A, t, i)
    /\ OccursAt(S_SPACE, t, NonSpaceRunEnd(t, i + 9) + 1)

new_num_change(t) ==
    LET at == {i \in DOMAIN t : NewNumAt(t, i)}
    IN  IF at = {} THEN NoMatch
        ELSE LET i == SetMax(at)
                 e == NonSpaceRunEnd(t, i + 9)
             IN  Match(SubSeq(t, i + 9, e),
                       SubSeq(t, e + 2, CommaFreeRunEnd(t, e + 2)),
                       <<>>)

\* str::parse::<i32>: an optional sign, then one or more decimal digits whose
\* value is in range.  Digits are accumulated on the side of the sign, as the
\* library does, and [ok |-> FALSE] is its Err.
RECURSIVE AccumulateI32(_, _, _)
AccumulateI32(digits, acc, negative) ==
    IF digits = <<>> THEN [ok |-> TRUE, value |-> acc]
    ELSE LET d == digits[1] - 48
         IN  IF ~IsDigit(digits[1]) THEN [ok |-> FALSE, value |-> 0]
             ELSE IF negative
             THEN IF acc < (I32_MIN + d + 9) \div 10
                  THEN [ok |-> FALSE, value |-> 0]
                  ELSE AccumulateI32(Tail(digits), (acc * 10) - d, negative)
             ELSE IF acc > (I32_MAX - d) \div 10
                  THEN [ok |-> FALSE, value |-> 0]
                  ELSE AccumulateI32(Tail(digits), (acc * 10) + d, negative)

ParseI32(tok) ==
    LET signed == tok # <<>> /\ tok[1] \in {43, 45}
        digits == IF signed THEN Tail(tok) ELSE tok
    IN  IF digits = <<>> THEN [ok |-> FALSE, value |-> 0]
        ELSE AccumulateI32(digits, 0, signed /\ tok[1] = 45)

PANIC_MUL == "attempt to multiply with overflow"

---------------------------------------------------------------------------
(* PatchChange::parse_text *)

parse_text(line, location, ver, checks) ==
    LET abs_num == abs_num_change(line)
        rel_num == rel_num_change(line)
        abs_txt == abs_txt_change(line)
        new_num == new_num_change(line)
    IN  IF abs_num.matched
        THEN Ok(PatchChange(location \o S_SEP \o abs_num.g1, ver,
                            AbsoluteChange(abs_num.g2, abs_num.g3)))
        ELSE IF rel_num.matched
        THEN LET shift_sign == IF rel_num.g2 = S_decreased THEN -1 ELSE 1
                 amount == ParseI32(rel_num.g3)
                 property == location \o S_SEP \o rel_num.g1
             IN  IF ~amount.ok THEN Panic(NoChange, PANIC_ERR)
                 ELSE IF shift_sign = -1 /\ amount.value = I32_MIN
                 THEN \* -1 * i32::MIN leaves the range
                      IF checks THEN Panic(NoChange, PANIC_MUL)
                      ELSE Ok(PatchChange(property, ver, RelativeChange(I32_MIN)))
                 ELSE Ok(PatchChange(property, ver,
                                     RelativeChange(shift_sign * amount.value)))
        ELSE IF abs_txt.matched
        THEN Ok(PatchChange(location \o S_SEP \o abs_txt.g1, ver,
                            AbsoluteChange(abs_txt.g2, abs_txt.g3)))
        ELSE IF new_num.matched
        THEN Ok(PatchChange(location \o S_SEP \o new_num.g2, ver,
                            AbsoluteChange(<<48>>, new_num.g1)))
        ELSE Ok(PatchChange(location, ver, OtherChange(line)))

---------------------------------------------------------------------------
(* Inputs *)

MaxLen == 3

Versions == {S_732, S_732a, S_732b}

\* The changes an input is drawn from.  On one property: two AbsoluteChange
\* values in each of three versions, a note in the middle version, and
\* RelativeChange deltas that cancel (1, -1), that leave the range of i32
\* when summed (i32::MAX and 1, i32::MIN and -1) and that do both
\* (i32::MAX, 1, i32::MIN).  On a second property, which is a prefix of the
\* first and sorts before it: one change of each variant.
Changes ==
    {PatchChange(S_HZB, v, d) :
        v \in Versions, d \in {AbsoluteChange(S_4, S_5), AbsoluteChange(S_5, S_6)}}
    \cup {PatchChange(S_HZB, S_732a, OtherChange(S_n))}
    \cup {PatchChange(S_HZB, v, RelativeChange(d)) : v \in {S_732, S_732a}, d \in {1, -1}}
    \cup {PatchChange(S_HZB, S_732, RelativeChange(I32_MAX)),
          PatchChange(S_HZB, S_732b, RelativeChange(I32_MIN))}
    \cup {PatchChange(S_HZ, S_732, d) :
        d \in {AbsoluteChange(S_4, S_5), RelativeChange(I32_MAX), OtherChange(S_n)}}

SeqsUpTo(S, n) == UNION {[1..k -> S] : k \in 0..n}

---------------------------------------------------------------------------
(* patch_diff, one action per step of the function. *)

MergeIdle ==
    /\ given = <<>>
    /\ combined_patches = <<>>
    /\ combined_idx = 0
    /\ result = <<>>
    /\ result_idx = 0

DiffIdle ==
    /\ old = NoChange
    /\ new = NoChange
    /\ data_result = NotRun
    /\ diff_result = NotRun

TextIdle ==
    /\ change_line = <<>>
    /\ tree_location = <<>>
    /\ version = <<>>
    /\ parsed = NotRun
    /\ text = TextNotRun

DirIdle ==
    /\ loop_i = 0
    /\ is_inc = FALSE
    /\ is_dec = FALSE
    /\ direction = TextNotRun

HtmlIdle ==
    /\ save_input = <<>>
    /\ save_idx = 0
    /\ current_h2 = <<>>
    /\ current_h3 = <<>>
    /\ current_b = <<>>
    /\ document = <<>>

\* The call patch_diff(given), in either build.
Init ==
    /\ overflow_checks \in BOOLEAN
    /\ pc = "sort"
    /\ given \in SeqsUpTo(Changes, MaxLen)
    /\ combined_patches = given
    /\ combined_idx = 0
    /\ result = <<>>
    /\ result_idx = 0
    /\ DiffIdle
    /\ TextIdle
    /\ DirIdle
    /\ HtmlIdle

\* combined_patches.sort()
Sort ==
    /\ pc = "sort"
    /\ combined_patches' = SortVec(combined_patches)
    /\ pc' = "loop"
    /\ UNCHANGED <<overflow_checks, given, combined_idx, result, result_idx,
                   diffVars, textVars, dirVars, htmlVars>>

\* The iteration combined_idx == 0: the first change is pushed as it is.
\* (Vectors are 1-based here: combined_patches[combined_idx + 1] is the
\* code's element combined_idx, result[result_idx + 1] its result[result_idx].)
PushFirst ==
    /\ pc = "loop"
    /\ combined_idx < Len(combined_patches)
    /\ combined_idx = 0
    /\ result' = Append(result, combined_patches[1])
    /\ combined_idx' = combined_idx + 1
    /\ UNCHANGED <<overflow_checks, pc, given, combined_patches, result_idx,
                   diffVars, textVars, dirVars, htmlVars>>

\* A later iteration: diff of the accumulator and the current change.
Merge ==
    /\ pc = "loop"
    /\ combined_idx < Len(combined_patches)
    /\ combined_idx # 0
    /\ LET current_change == combined_patches[combined_idx + 1]
           d == PatchChange_diff(result[result_idx + 1], current_change,
                                 overflow_checks)
       IN  \/ /\ d.kind = "Ok"
              /\ result' = [result EXCEPT ![result_idx + 1] = d.value]
              /\ combined_idx' = combined_idx + 1
              /\ UNCHANGED <<pc, result_idx>>
           \/ /\ d.kind = "Err"
              /\ result' = Append(result, current_change)
              /\ result_idx' = result_idx + 1
              /\ combined_idx' = combined_idx + 1
              /\ UNCHANGED pc
           \/ /\ d.kind = "Panic"
              /\ pc' = "panicked"
              /\ UNCHANGED <<result, result_idx, combined_idx>>
    /\ UNCHANGED <<overflow_checks, given, combined_patches, diffVars, textVars,
                   dirVars, htmlVars>>

\* return result
Return ==
    /\ pc = "loop"
    /\ combined_idx = Len(combined_patches)
    /\ pc' = "done"
    /\ UNCHANGED <<overflow_checks, mergeVars, diffVars, textVars, dirVars, htmlVars>>

Next == Sort \/ PushFirst \/ Merge \/ Return

Spec == Init /\ [][Next]_vars

---------------------------------------------------------------------------
(* The two diff functions, called on a pair of changes. *)

DiffDatas ==
    {AbsoluteChange(S_4, S_5), AbsoluteChange(S_5, S_6),
     RelativeChange(1), RelativeChange(-1), RelativeChange(2),
     RelativeChange(I32_MAX), RelativeChange(I32_MIN),
     OtherChange(S_n), OtherChange(S_4)}

DiffChanges ==
    {PatchChange(p, v, d) : p \in {S_HZ, S_HZB}, v \in {S_732, S_732a}, d \in DiffDatas}

InitDiff ==
    /\ overflow_checks \in BOOLEAN
    /\ pc = "diff_data"
    /\ old \in DiffChanges
    /\ new \in DiffChanges
    /\ data_result = NotRun
    /\ diff_result = NotRun
    /\ MergeIdle
    /\ TextIdle
    /\ DirIdle
    /\ HtmlIdle

\* ChangeData::diff(&old.data, &new.data)
CallChangeDataDiff ==
    /\ pc = "diff_data"
    /\ data_result' = ChangeData_diff(old.data, new.data, overflow_checks)
    /\ pc' = "diff_change"
    /\ UNCHANGED <<overflow_checks, old, new, diff_result, mergeVars, textVars,
                   dirVars, htmlVars>>

\* PatchChange::diff(&old, &new)
CallPatchChangeDiff ==
    /\ pc = "diff_change"
    /\ diff_result' = PatchChange_diff(old, new, overflow_checks)
    /\ pc' = "diff_done"
    /\ UNCHANGED <<overflow_checks, old, new, data_result, mergeVars, textVars,
                   dirVars, htmlVars>>

NextDiff == CallChangeDataDiff \/ CallPatchChangeDiff

SpecDiff == InitDiff /\ [][NextDiff]_vars

---------------------------------------------------------------------------
(* parse_text on a line, then write_text on the record; write_text also on *)
(* records built otherwise (a merge result, PatchChange::new).             *)

S_D        == <<68>>                                   \* "D"
S_LTalent  == <<76,32,84,97,108,101,110,116>>          \* "L Talent"
S_HTalent  == <<72,32,62,32,84,97,108,101,110,116>>    \* "H > Talent"
S_M        == <<77>>                                   \* "M"
S_Mx       == <<77,44,32,120>>                         \* "M, x"
S_OP       == <<79,80>>                                \* "OP"
S_x        == <<120>>                                  \* "x"
S_dot      == <<46>>                                   \* "."
S_55s      == <<53,46,53,115>>                         \* "5.5s"
S_4s5      == <<52,47,53>>                             \* "4/5"
S_1        == <<49>>                                   \* "1"
S_0        == <<48>>                                   \* "0"
S_1p5      == <<49,46,53>>                             \* "1.5"
S_m2       == <<45,50>>                                \* "-2"
S_2p31     == <<50,49,52,55,52,56,51,54,52,56>>        \* "2147483648"
S_m2p31    == <<45,50,49,52,55,52,56,51,54,52,56>>     \* "-2147483648"
S_NOW_HAS_A == <<110,111,119,32,104,97,115,32,97>>     \* "now has a"
S_INC_FROM == <<105,110,99,114,101,97,115,101,100,32,102,114,111,109>>  \* "increased from"
S_DEC_BY   == <<100,101,99,114,101,97,115,101,100,32,98,121>>           \* "decreased by"
S_to       == <<116,111>>                              \* "to"
S_REPL     == <<114,101,112,108,97,99,101,100,32,119,105,116,104>>      \* "replaced with"
S_unchanged == <<117,110,99,104,97,110,103,101,100>>   \* "unchanged"

MaxChunks == 3

Subjects == {S_D, S_LTalent}
Values   == {S_4, S_55s, S_4s5, S_x, S_dot}
Amounts  == {S_1, S_0, S_1p5, S_x, <<>>, S_m2, S_2p31, S_m2p31}
Chunks   == {S_D, S_Talent, S_INC_FROM, S_DEC_BY, S_to, S_REPL, S_NOW_HAS_A, S_5, S_x}

RECURSIVE JoinWithSpace(_)
JoinWithSpace(ws) ==
    IF ws = <<>> THEN <<>>
    ELSE IF Len(ws) = 1 THEN ws[1]
    ELSE ws[1] \o S_SPACE \o JoinWithSpace(Tail(ws))

\* Lines of each of the four shapes, and short lines of freely mixed pieces.
Lines ==
    {s \o S_SPACE \o v \o S_FROM \o a \o S_TO \o b :
        s \in Subjects, v \in Verbs, a \in Values, b \in Values}
    \cup {s \o S_SPACE \o v \o S_BY \o a : s \in Subjects, v \in Verbs, a \in Amounts}
    \cup {S_LTalent \o S_SPACE \o a \o S_REPLACED \o b : a \in {S_OP, S_x}, b \in {S_OP, S_x}}
    \cup {S_D \o S_SPACE \o S_NOW_HAS_A \o S_SPACE \o a \o S_SPACE \o m :
        a \in Values, m \in {S_M, S_Mx}}
    \cup {JoinWithSpace(ws) : ws \in SeqsUpTo(Chunks, MaxChunks)}

\* Records handed to write_text without a line behind them.
WriteChanges ==
    {PatchChange(p, S_732, d) :
        p \in {S_HZB, S_HTalent},
        d \in {AbsoluteChange(a, b) : a \in Values, b \in Values}
              \cup {RelativeChange(v) : v \in {-2, -1, 0, 1, 2, I32_MAX, I32_MIN}}
              \cup {OtherChange(S_n), OtherChange(S_unchanged)}}

InitText ==
    /\ overflow_checks \in BOOLEAN
    /\ \/ /\ pc = "parse"
          /\ change_line \in Lines
          /\ tree_location \in {S_HZ, S_HTalent}
          /\ version = S_732
          /\ parsed = NotRun
       \/ /\ pc = "write"
          /\ change_line = <<>>
          /\ tree_location = <<>>
          /\ version = <<>>
          /\ \E c \in WriteChanges : parsed = Ok(c)
    /\ text = TextNotRun
    /\ MergeIdle
    /\ DiffIdle
    /\ DirIdle
    /\ HtmlIdle

\* PatchChange::parse_text(change_line, tree_location, version)
CallParseText ==
    /\ pc = "parse"
    /\ parsed' = parse_text(change_line, tree_location, version, overflow_checks)
    /\ pc' = IF parsed'.kind = "Panic" THEN "panicked" ELSE "write"
    /\ UNCHANGED <<overflow_checks, change_line, tree_location, version, text,
                   mergeVars, diffVars, dirVars, htmlVars>>

\* parsed.write_text()
CallWriteText ==
    /\ pc = "write"
    /\ text' = write_text(parsed.value)
    /\ pc' = IF text'.kind = "Panic" THEN "panicked" ELSE "text_done"
    /\ UNCHANGED <<overflow_checks, change_line, tree_location, version, parsed,
                   mergeVars, diffVars, dirVars, htmlVars>>

NextText == CallParseText \/ CallWriteText

SpecText == InitText /\ [][NextText]_vars

---------------------------------------------------------------------------
(* absolute_change_direction(old, new), one action per turn of its loop. *)

S_6s5    == <<54, 47, 53>>                           \* "6/5"
S_5s4    == <<53, 47, 52>>                           \* "5/4"
S_456    == <<52, 47, 53, 47, 54>>                   \* "4/5/6"
S_4p0    == <<52, 46, 48>>                           \* "4.0"
S_a4b9   == <<97, 52, 98, 57>>                       \* "a4b9"

DirValues ==
    {S_4, S_5, S_6, S_4s5, S_5s4, S_6s5, S_456, S_4p0, S_55s, S_a4b9, S_x, S_dot}

InitDirection ==
    /\ overflow_checks \in BOOLEAN
    /\ pc = "direction"
    /\ old \in DirValues
    /\ new \in DirValues
    /\ data_result = NotRun
    /\ diff_result = NotRun
    /\ DirIdle
    /\ MergeIdle
    /\ TextIdle
    /\ HtmlIdle

\* longest_len: the larger of the two segment counts.
longest_len ==
    IF Len(SplitOn(new, 47)) > Len(SplitOn(old, 47))
    THEN Len(SplitOn(new, 47)) ELSE Len(SplitOn(old, 47))

\* One turn of the while loop: both values are read (each unwrap may panic),
\* then the two flags are raised.
CompareLevel ==
    /\ pc = "direction"
    /\ loop_i < longest_len
    /\ LET old_str == SegmentAt(SplitOn(old, 47), loop_i)
           new_str == SegmentAt(SplitOn(new, 47), loop_i)
           old_tok == FirstNumToken(old_str)
           new_tok == FirstNumToken(new_str)
       IN  IF old_tok = <<>> \/ ~ParsesAsF32(old_tok)
           THEN /\ direction' = TextPanic(IF old_tok = <<>> THEN PANIC_NONE
                                                            ELSE PANIC_ERR)
                /\ pc' = "panicked"
                /\ UNCHANGED <<loop_i, is_inc, is_dec>>
           ELSE IF new_tok = <<>> \/ ~ParsesAsF32(new_tok)
           THEN /\ direction' = TextPanic(IF new_tok = <<>> THEN PANIC_NONE
                                                            ELSE PANIC_ERR)
                /\ pc' = "panicked"
                /\ UNCHANGED <<loop_i, is_inc, is_dec>>
           ELSE /\ is_dec' = (is_dec \/ F32Cmp(new_tok, old_tok) < 0)
                /\ is_inc' = (is_inc \/ F32Cmp(new_tok, old_tok) > 0)
                /\ loop_i' = loop_i + 1
                /\ UNCHANGED <<pc, direction>>
    /\ UNCHANGED <<overflow_checks, old, new, data_result, diff_result,
                   mergeVars, textVars, htmlVars>>

\* After the loop: the verdict.
ReturnDirection ==
    /\ pc = "direction"
    /\ loop_i = longest_len
    /\ direction' = IF is_inc /\ is_dec THEN TextOk(S_rescaled)
                    ELSE IF is_inc THEN TextOk(S_increased)
                    ELSE IF is_dec THEN TextOk(S_decreased)
                    ELSE TextOk(S_changed)
    /\ pc' = "direction_done"
    /\ UNCHANGED <<overflow_checks, old, new, data_result, diff_result,
                   loop_i, is_inc, is_dec, mergeVars, textVars, htmlVars>>

NextDirection == CompareLevel \/ ReturnDirection

SpecDirection == InitDirection /\ [][NextDirection]_vars

\* patch_diff as a function of its argument: the sort, then the loop.
RECURSIVE patch_diff_loop(_, _, _, _)
patch_diff_loop(sorted, i, acc, checks) ==
    IF i > Len(sorted) THEN [kind |-> "Ok", result |-> acc]
    ELSE IF i = 1 THEN patch_diff_loop(sorted, 2, <<sorted[1]>>, checks)
    ELSE LET d == PatchChange_diff(acc[Len(acc)], sorted[i], checks)
         IN  CASE d.kind = "Ok" ->
                    patch_diff_loop(sorted, i + 1,
                                    [acc EXCEPT ![Len(acc)] = d.value], checks)
               [] d.kind = "Err" ->
                    patch_diff_loop(sorted, i + 1, Append(acc, sorted[i]), checks)
               [] d.kind = "Panic" -> [kind |-> "Panic", result |-> <<>>]

patch_diff(v, checks) == patch_diff_loop(SortVec(v), 1, <<>>, checks)

---------------------------------------------------------------------------
(* save_diff_as_html (src/src/main.rs) on a result of patch_diff, one       *)
(* action per turn of its for loop and one for what follows the loop.       *)

H_DIV           == <<60, 100, 105, 118, 62>>   \* "<div>"
H_H2            == <<60, 104, 50, 62>>   \* "<h2>"
H_H2_END        == <<60, 47, 104, 50, 62>>   \* "</h2>"
H_H3            == <<60, 104, 51, 62>>   \* "<h3>"
H_H3_END_UL     == <<60, 47, 104, 51, 62, 60, 117, 108, 62>>   \* "</h3><ul>"
H_UL_END_H2     == <<60, 47, 117, 108, 62, 60, 104, 50, 62>>   \* "</ul><h2>"
H_UL_END_H3     == <<60, 47, 117, 108, 62, 60, 104, 51, 62>>   \* "</ul><h3>"
H_UL_LI_END     == <<60, 47, 117, 108, 62, 60, 47, 108, 105, 62>>   \* "</ul></li>"
H_LI            == <<60, 108, 105, 62>>   \* "<li>"
H_LI_END        == <<60, 47, 108, 105, 62>>   \* "</li>"
H_UL            == <<60, 117, 108, 62>>   \* "<ul>"
H_UL_LI_END_LI  == <<60, 47, 117, 108, 62, 60, 47, 108, 105, 62, 60, 108, 105, 62>>   \* "</ul></li><li>"
H_CLOSE         == <<60, 47, 117, 108, 62, 60, 47, 100, 105, 118, 62>>   \* "</ul></div>"
H_CLOSE_GROUP   == <<60, 47, 117, 108, 62, 60, 47, 108, 105, 62, 60, 47, 117, 108, 62, 60, 47, 100, 105, 118, 62>>   \* "</ul></li></ul></div>"
S_D_unchanged   == <<68, 32, 117, 110, 99, 104, 97, 110, 103, 101, 100>>   \* "D unchanged"
S_HZBD          == <<72, 32, 62, 32, 90, 32, 62, 32, 66, 32, 62, 32, 68>>   \* "H > Z > B > D"
S_IZB           == <<73, 32, 62, 32, 90, 32, 62, 32, 66>>   \* "I > Z > B"
S_HYB           == <<72, 32, 62, 32, 89, 32, 62, 32, 66>>   \* "H > Y > B"
S_HZCD          == <<72, 32, 62, 32, 90, 32, 62, 32, 67, 32, 62, 32, 68>>   \* "H > Z > C > D"
S_Z             == <<90>>   \* "Z"

\* str::split on a separator of several bytes.
RECURSIVE SplitStr(_, _)
SplitStr(t, sep) ==
    LET hits == {i \in 1..Len(t) : OccursAt(sep, t, i)}
    IN  IF hits = {} THEN <<t>>
        ELSE <<SubSeq(t, 1, SetMin(hits) - 1)>>
             \o SplitStr(SubSeq(t, SetMin(hits) + Len(sep), Len(t)), sep)

MaxSaved == 3

SaveChanges ==
    {PatchChange(S_HZB, S_732, RelativeChange(1)),
     PatchChange(S_HZB, S_732a, RelativeChange(-1)),
     PatchChange(S_HZB, S_732, AbsoluteChange(S_4, S_5)),
     PatchChange(S_HZ, S_732, OtherChange(S_n)),
     PatchChange(S_HZ, S_732, OtherChange(S_D_unchanged)),
     PatchChange(S_HZBD, S_732, RelativeChange(2)),
     PatchChange(S_HZCD, S_732, AbsoluteChange(S_5, S_4)),
     PatchChange(S_HYB, S_732, RelativeChange(-2)),
     PatchChange(S_IZB, S_732, AbsoluteChange(S_4, S_5)),
     PatchChange(S_Z, S_732, RelativeChange(1))}

\* save_diff_as_html(patch_diff(..)): the state before the loop.
InitHtml ==
    /\ overflow_checks \in BOOLEAN
    /\ pc = "save"
    /\ \E v \in SeqsUpTo(SaveChanges, MaxSaved) :
          /\ patch_diff(v, overflow_checks).kind = "Ok"
          /\ save_input = patch_diff(v, overflow_checks).result
    /\ save_idx = 0
    /\ current_h2 = <<>>
    /\ current_h3 = <<>>
    /\ current_b = <<>>
    /\ document = H_DIV
    /\ MergeIdle
    /\ DiffIdle
    /\ TextIdle
    /\ DirIdle

\* The loop body from the split on: the headings and the list item pushed
\* for a change whose text has these headers.
PushChange(headers, h2, h3, b, doc) ==
    LET new_h2 == headers[1] # h2
        doc1 == IF new_h2
                THEN doc \o (IF h2 = <<>> THEN H_H2
                             ELSE (IF b # <<>> THEN H_UL_LI_END ELSE <<>>)
                                  \o H_UL_END_H2)
                         \o headers[1] \o H_H2_END
                ELSE doc
        h2_1 == IF new_h2 THEN headers[1] ELSE h2
        h3_1 == IF new_h2 THEN <<>> ELSE h3
        b_1  == IF new_h2 THEN <<>> ELSE b
        new_h3 == headers[2] # h3_1
        doc2 == IF new_h3
                THEN doc1 \o (IF h3_1 = <<>> THEN H_H3
                              ELSE (IF b_1 # <<>> THEN H_UL_LI_END ELSE <<>>)
                                   \o H_UL_END_H3)
                          \o headers[2] \o H_H3_END_UL
                ELSE doc1
        h3_2 == IF new_h3 THEN headers[2] ELSE h3_1
        b_2  == IF new_h3 THEN <<>> ELSE b_1
        new_b == Len(headers) = 4 /\ headers[3] # b_2
        doc3 == IF new_b
                THEN doc2 \o (IF b_2 = <<>> THEN H_LI ELSE H_UL_LI_END_LI)
                          \o headers[3] \o H_UL
                ELSE doc2
        b_3  == IF new_b THEN headers[3] ELSE b_2
    IN  [h2 |-> h2_1, h3 |-> h3_2, b |-> b_3,
         doc |-> doc3 \o H_LI \o headers[Len(headers)] \o H_LI_END]

\* One turn of the for loop.  write_text may panic, and so does headers[1]
\* when the text holds no " > ".
SaveChange ==
    /\ pc = "save"
    /\ save_idx < Len(save_input)
    /\ LET change_text == write_text(save_input[save_idx + 1])
           headers == SplitStr(change_text.text, S_SEP)
       IN  IF change_text.kind = "Panic"
           THEN /\ pc' = "panicked"
                /\ UNCHANGED <<save_idx, current_h2, current_h3, current_b, document>>
           ELSE IF Contains(change_text.text, S_unchanged)
           THEN /\ save_idx' = save_idx + 1
                /\ UNCHANGED <<pc, current_h2, current_h3, current_b, document>>
           ELSE IF Len(headers) < 2
           THEN /\ pc' = "panicked"
                /\ UNCHANGED <<save_idx, current_h2, current_h3, current_b, document>>
           ELSE LET after == PushChange(headers, current_h2, current_h3,
                                        current_b, document)
                IN  /\ current_h2' = after.h2
                    /\ current_h3' = after.h3
                    /\ current_b' = after.b
                    /\ document' = after.doc
                    /\ save_idx' = save_idx + 1
                    /\ UNCHANGED pc
    /\ UNCHANGED <<overflow_checks, save_input, mergeVars, diffVars, textVars, dirVars>>

\* After the loop: the open lists are closed and the document is written.
WriteDocument ==
    /\ pc = "save"
    /\ save_idx = Len(save_input)
    /\ document' = document \o (IF current_b = <<>> THEN H_CLOSE ELSE H_CLOSE_GROUP)
    /\ pc' = "saved"
    /\ UNCHANGED <<overflow_checks, save_input, save_idx, current_h2, current_h3,
                   current_b, mergeVars, diffVars, textVars, dirVars>>

NextHtml == SaveChange \/ WriteDocument

SpecHtml == InitHtml /\ [][NextHtml]_vars

---------------------------------------------------------------------------
(* Vocabulary of the properties below. *)

PropsOf(s) == {s[i].property : i \in DOMAIN s}
RecordsOf(s, p) == SelectSeq(s, LAMBDA r : r.property = p)
Range(s) == {s[i] : i \in DOMAIN s}
VersionsOf(s) == {s[i].version : i \in DOMAIN s}
\* The latest / earliest version of a non-empty set, in String order.
Latest(V) == CHOOSE v \in V : \A w \in V : StrCmp(w, v) <= 0
Earliest(V) == CHOOSE v \in V : \A w \in V : StrCmp(v, w) <= 0
AllTagged(s, t) == \A i \in DOMAIN s : s[i].data.tag = t
Perms(s) == {[i \in DOMAIN s |-> s[f[i]]] : f \in Permutations(DOMAIN s)}

\* Sum of the deltas of RelativeChange records, in two halves so that no
\* intermediate leaves the range of the checker's integers.
RECURSIVE HiSum(_)
HiSum(s) == IF s = <<>> THEN 0 ELSE (s[1].data.value \div 65536) + HiSum(Tail(s))
RECURSIVE LoSum(_)
LoSum(s) == IF s = <<>> THEN 0 ELSE (s[1].data.value % 65536) + LoSum(Tail(s))
SumIsZero(s) == LoSum(s) % 65536 = 0 /\ HiSum(s) + (LoSum(s) \div 65536) = 0

---------------------------------------------------------------------------
(* C1 *)

---------------------------------------------------------------------------
(* C2 *)

IsAbsoluteChain(rs) ==
    /\ Len(rs) >= 2
    /\ AllTagged(rs, "AbsoluteChange")
    /\ Cardinality(VersionsOf(rs)) = Len(rs)

\* The record of rs with version v (one, in a chain).
AtVersion(rs, v) == CHOOSE r \in Range(rs) : r.version = v

\* C2: when patch_diff returns, a property whose input records are two or
\* more AbsoluteChange records of pairwise different versions, in whatever
\* order and among whatever other records, has the single output record
\* AbsoluteChange(old of the earliest, new of the latest) at the latest version.
C2_AbsoluteChainMerges ==
    pc = "done" =>
        \A p \in PropsOf(given) :
            LET rs == RecordsOf(given, p)
                first == AtVersion(rs, Earliest(VersionsOf(rs)))
                last  == AtVersion(rs, Latest(VersionsOf(rs)))
            IN  IsAbsoluteChain(rs) =>
                    RecordsOf(result, p) =
                        <<PatchChange(p, last.version,
                              AbsoluteChange(first.data.old, last.data.new))>>

C2_Witness ==
    /\ pc = "done"
    /\ given # combined_patches
    /\ Cardinality(PropsOf(given)) = 2
    /\ \E p \in PropsOf(given) :
          /\ IsAbsoluteChain(RecordsOf(given, p))
          /\ RecordsOf(given, p)[1].version = Latest(VersionsOf(RecordsOf(given, p)))
          /\ RecordsOf(given, p)[1].data.old
                # AtVersion(RecordsOf(given, p),
                            Earliest(VersionsOf(RecordsOf(given, p)))).data.old

---------------------------------------------------------------------------
(* C3 *)

\* a, n, b are the three records of rs: AbsoluteChange, OtherChange,
\* AbsoluteChange at increasing versions.
IsNoteBetween(rs, a, n, b) ==
    /\ Len(rs) = 3
    /\ Range(rs) = {a, n, b}
    /\ a.data.tag = "AbsoluteChange"
    /\ n.data.tag = "OtherChange"
    /\ b.data.tag = "AbsoluteChange"
    /\ StrCmp(a.version, n.version) < 0
    /\ StrCmp(n.version, b.version) < 0

\* C3: a property whose input records are an AbsoluteChange, an OtherChange
\* and an AbsoluteChange at increasing versions has, when patch_diff returns,
\* exactly these three records in the output, in version order and unmerged;
\* and patch_diff never fails at a record of that property.
C3_NoteBreaksMerge ==
    \A p \in PropsOf(given) :
        \A a, n, b \in Range(RecordsOf(given, p)) :
            IsNoteBetween(RecordsOf(given, p), a, n, b) =>
                /\ pc = "done" => RecordsOf(result, p) = <<a, n, b>>
                /\ pc = "panicked" =>
                       combined_patches[combined_idx + 1].property # p

C3_Witness ==
    /\ pc = "done"
    /\ given # combined_patches
    /\ Len(result) = 3
    /\ \E p \in PropsOf(given) :
          \E a, n, b \in Range(RecordsOf(given, p)) :
              IsNoteBetween(RecordsOf(given, p), a, n, b)

---------------------------------------------------------------------------
(* C4 *)

---------------------------------------------------------------------------
(* C5 *)

\* How the run of patch_diff on `given` ended.
Outcome ==
    IF pc = "done" THEN [kind |-> "Ok", result |-> result]
    ELSE [kind |-> "Panic", result |-> <<>>]

\* C5: once patch_diff has ended on an input, its outcome (the returned
\* sequence, or the failure) is that of patch_diff on every permutation of
\* the input.
C5_OrderIndependent ==
    pc \in {"done", "panicked"} =>
        \A q \in Perms(given) : patch_diff(q, overflow_checks) = Outcome

C5_Witness ==
    /\ pc = "done"
    /\ Len(given) = 3
    /\ Len(result) = 2
    /\ given # combined_patches
    /\ Cardinality(Perms(given)) = 6

---------------------------------------------------------------------------
(* C6 *)

\* v = a + b over the integers, for i32 values, without leaving the range of
\* the checker's integers.
ExactSum(v, a, b) ==
    IF a >= 0 /\ b >= 0 THEN v >= a /\ v - a = b
    ELSE IF a < 0 /\ b < 0 THEN v <= a /\ v - a = b
    ELSE v = a + b

\* C6 as stated: ChangeData::diff(old, new) is the variant-mismatch error for
\* different variants, the "does not track diff" error for two OtherChange,
\* AbsoluteChange(old's first, new's second) for two AbsoluteChange, and
\* RelativeChange(a + b), the arithmetic sum, for RelativeChange(a) and
\* RelativeChange(b).
C6_DiffAlgebra ==
    pc \in {"diff_change", "diff_done"} =>
        LET o == old.data
            n == new.data
        IN  IF o.tag # n.tag
            THEN data_result.kind = "Err" /\ data_result.err = ERR_VARIANT
            ELSE CASE o.tag = "OtherChange" ->
                        data_result.kind = "Err" /\ data_result.err = ERR_OTHER
                   [] o.tag = "AbsoluteChange" ->
                        data_result = Ok(AbsoluteChange(o.old, n.new))
                   [] o.tag = "RelativeChange" ->
                        /\ data_result.kind = "Ok"
                        /\ data_result.value.tag = "RelativeChange"
                        /\ ExactSum(data_result.value.value, o.value, n.value)

---------------------------------------------------------------------------
(* C7 *)

\* C7: the call PatchChange::diff(old, new) leaves old and new as they are;
\* it is the property-mismatch error when the properties differ, whatever
\* the data; otherwise it ends as ChangeData::diff(old.data, new.data) ends,
\* and on success the record has old's property, new's version and the
\* combined data.
C7_RecordDiff ==
    [][pc = "diff_change" =>
          /\ old' = old
          /\ new' = new
          /\ IF old.property # new.property
             THEN diff_result' = Err(NoChange, ERR_PROPERTY)
             ELSE IF data_result.kind = "Ok"
             THEN diff_result' =
                      Ok(PatchChange(old.property, new.version, data_result.value))
             ELSE /\ diff_result'.kind = data_result.kind
                  /\ diff_result'.err = data_result.err]_vars

C7_Witness ==
    /\ pc = "diff_done"
    /\ old.property = new.property
    /\ old.version # new.version
    /\ diff_result.kind = "Ok"
    /\ diff_result.value.version = new.version
    /\ diff_result.value.data # old.data
    /\ diff_result.value.data # new.data

---------------------------------------------------------------------------
(* C8 *)

\* No pattern decomposes the line: none matches, or the relative pattern is
\* the first to match and its amount is no integer.
Undecomposable(l) ==
    /\ ~abs_num_change(l).matched
    /\ IF rel_num_change(l).matched
       THEN ~ParseI32(rel_num_change(l).g3).ok
       ELSE ~abs_txt_change(l).matched /\ ~new_num_change(l).matched

\* C8 as stated: parse_text returns a record for every line, and for a line
\* that no pattern decomposes the record is OtherChange(line) with the
\* context path as its property.
C8_ParseTextTotal ==
    (pc # "parse" /\ tree_location # <<>>) =>
        /\ parsed.kind = "Ok"
        /\ Undecomposable(change_line) =>
               parsed.value = PatchChange(tree_location, version,
                                          OtherChange(change_line))

---------------------------------------------------------------------------
(* C9 *)

\* C9 as stated: write_text returns a text line for every record.
C9_WriteTextTotal ==
    text.kind # "Panic"

---------------------------------------------------------------------------
(* C10 *)

S_MIN_MAGNITUDE == <<50,49,52,55,52,56,51,54,52,56>>   \* "2147483648"

\* The decimal digits of |v|.
Magnitude(v) ==
    IF v >= 0 THEN NatDigits(v)
    ELSE IF v = I32_MIN THEN S_MIN_MAGNITUDE
    ELSE NatDigits(-v)

\* C10 as stated: for RelativeChange(v), v # 0, write_text is
\* "<property> increased by <|v|>" when v > 0 and
\* "<property> decreased by <|v|>" when v < 0.
C10_MagnitudePrinted ==
    (text.kind = "Ok" /\ parsed.value.data.tag = "RelativeChange"
                      /\ parsed.value.data.value # 0) =>
        text.text = parsed.value.property \o S_SPACE
                    \o (IF parsed.value.data.value > 0 THEN S_increased
                        ELSE S_decreased)
                    \o S_BY \o Magnitude(parsed.value.data.value)

---------------------------------------------------------------------------
(* C11 *)

\* The number a segment holds: its first run of digits and dots, read as a
\* decimal; in thousandths, so that it is an integer.
RECURSIVE DigitsValue(_)
DigitsValue(d) ==
    IF d = <<>> THEN 0 ELSE 10 * DigitsValue(SubSeq(d, 1, Len(d) - 1)) + (d[Len(d)] - 48)

Thousandths(seg) ==
    LET tok   == FirstNumToken(seg)
        parts == SplitOn(tok, 46)
        frac  == IF Len(parts) > 1 THEN parts[2] ELSE <<>>
    IN  1000 * DigitsValue(parts[1])
        + DigitsValue(SubSeq(frac \o <<48, 48, 48>>, 1, 3))

HoldsNumbers(v) ==
    \A k \in DOMAIN SplitOn(v, 47) : ParsesAsF32(FirstNumToken(SplitOn(v, 47)[k]))

\* Level k (from 1) of a value: its k-th segment, or its last one.
LevelOf(v, k) ==
    LET segs == SplitOn(v, 47)
    IN  Thousandths(IF k <= Len(segs) THEN segs[k] ELSE segs[Len(segs)])

Levels(a, b) ==
    1..(IF Len(SplitOn(a, 47)) > Len(SplitOn(b, 47))
        THEN Len(SplitOn(a, 47)) ELSE Len(SplitOn(b, 47)))

\* C11: when every slash-separated segment of old and of new holds a number,
\* absolute_change_direction returns, and its verdict compares the values
\* level by level up to the larger segment count, a missing level reading
\* the shorter value's last segment: "rescaled" when some level goes up and
\* some level goes down, "increased" when some go up and none down,
\* "decreased" when some go down and none up, "changed" when none differs.
C11_DirectionVerdict ==
    (pc \in {"direction_done", "panicked"} /\ HoldsNumbers(old) /\ HoldsNumbers(new))
    => LET up   == \E k \in Levels(old, new) : LevelOf(new, k) > LevelOf(old, k)
           down == \E k \in Levels(old, new) : LevelOf(new, k) < LevelOf(old, k)
       IN  /\ pc = "direction_done"
           /\ direction = TextOk(CASE up /\ down   -> S_rescaled
                                   [] up /\ ~down  -> S_increased
                                   [] ~up /\ down  -> S_decreased
                                   [] OTHER        -> S_changed)

\* "4/5/6" against "6/5": the third level of the new value reads its last
\* segment, 5, so that level goes down while the first goes up.
C11_Witness ==
    /\ pc = "direction_done"
    /\ old = S_456
    /\ new = S_6s5
    /\ direction = TextOk(S_rescaled)

---------------------------------------------------------------------------
(* C12 *)

\* C12: when patch_diff returns, a property with exactly one record in the
\* input has exactly one record in the output, and it is that record
\* (property, version and data), wherever it stood in the input and
\* whatever the other records are.
C12_SingletonSurvives ==
    pc = "done" =>
        \A p \in PropsOf(given) :
            Len(RecordsOf(given, p)) = 1 => RecordsOf(result, p) = RecordsOf(given, p)

\* The single record of one property stands between two records of another
\* property, which merge into one.
C12_Witness ==
    /\ pc = "done"
    /\ Len(given) = 3
    /\ given[1].property = given[3].property
    /\ given[2].property # given[1].property
    /\ Len(result) = 2
    /\ given[2] \in Range(result)

---------------------------------------------------------------------------
(* C13 *)

\* The list item of a record: its rendered text's last header, as an item.
ItemOf(r) ==
    LET headers == SplitStr(write_text(r).text, S_SEP)
    IN  H_LI \o headers[Len(headers)] \o H_LI_END

\* C13 as stated: in the written document a record of patch_diff's output
\* has no list item if and only if its data is RelativeChange(0); every
\* other record has its item, whatever its property or note says.
C13_OmitsOnlyNoChange ==
    pc = "saved" =>
        \A k \in DOMAIN save_input :
            ~Contains(document, ItemOf(save_input[k]))
                <=> save_input[k].data = RelativeChange(0)

====
